---- MODULE Spec2Model ----
\* Model of openclaw_kokoro_plugin: device selection (pick_device), the
\* per-(lang_code, device) pipeline cache (_get_pipeline), synthesize and the
\* command-line adapter (cli.main).
\*
\* Python strings are modelled as sequences of one-character strings, so that
\* str.lower() and str.strip() are computed rather than assumed.
EXTENDS Integers, Sequences, FiniteSets, TLC

VARIABLES
    mps_available,      \* torch.backends.mps.is_available()
    cuda_available,     \* torch.cuda.is_available()
    default_lang_code,  \* OpenClawKokoroTTSPlugin.default_lang_code
    preferred_device,   \* OpenClawKokoroTTSPlugin.preferred_device
    _pipelines,         \* OpenClawKokoroTTSPlugin._pipelines: (lang, device) -> pipeline
    constructed,        \* every KPipeline built so far, in order, with its constructor arguments
    pc,                 \* where the caller is: "idle", "returned", "pick", "picked", "start", "exited"
    call,               \* the call just returned: its arguments, outcome and steps
    stdout,             \* lines printed by cli.main
    exit_status         \* value returned by cli.main

vars == <<mps_available, cuda_available, default_lang_code, preferred_device,
          _pipelines, constructed, pc, call, stdout, exit_status>>

-----------------------------------------------------------------------------
\* Bounds

\* Largest number of KPipeline objects built on one plugin instance.
MaxBuilt == 2

-----------------------------------------------------------------------------
\* Python values

\* Python's None (a value no string equals).
None == <<"<None>">>

\* Truthiness of an Optional[str]: None and "" are falsy.
Truthy(s) == s # None /\ s # <<>>

Whitespace == {" ", "\t", "\n"}

UpperChars == <<"A", "C", "D", "G", "M", "O", "P", "S", "T", "U">>
LowerChars == <<"a", "c", "d", "g", "m", "o", "p", "s", "t", "u">>

LowerChar(c) ==
    IF \E i \in 1..Len(UpperChars) : UpperChars[i] = c
    THEN LowerChars[CHOOSE i \in 1..Len(UpperChars) : UpperChars[i] = c]
    ELSE c

\* str.lower()
Lower(s) == [i \in 1..Len(s) |-> LowerChar(s[i])]

RECURSIVE LStrip(_)
LStrip(s) == IF s # <<>> /\ Head(s) \in Whitespace THEN LStrip(Tail(s)) ELSE s

RECURSIVE RStrip(_)
RStrip(s) ==
    IF s # <<>> /\ s[Len(s)] \in Whitespace
    THEN RStrip(SubSeq(s, 1, Len(s) - 1))
    ELSE s

\* str.strip()
Strip(s) == RStrip(LStrip(s))

S_auto == <<"a", "u", "t", "o">>
S_mps  == <<"m", "p", "s">>
S_cuda == <<"c", "u", "d", "a">>
S_cpu  == <<"c", "p", "u">>

\* plugin.LANGUAGES (its keys)
LANGUAGES == {<<"a">>, <<"b">>}

DEFAULT_VOICE == <<"a", "f", "_", "h", "e", "a", "r", "t">>

\* A raised exception: its class and its message (the formatted part in detail).
Exc(cls, msg, detail) == [cls |-> cls, msg |-> msg, detail |-> detail]

NoExc == Exc("", "", <<>>)

\* plugin.KokoroPluginError
KokoroPluginError(msg, detail) == Exc("KokoroPluginError", msg, detail)

\* An exception of the kokoro / torch library raised by the KPipeline constructor.
LibraryError(device) == Exc("RuntimeError", "KPipeline init failed", device)

-----------------------------------------------------------------------------
\* Device selection

\* plugin.DeviceSelection
DeviceSelection(requested, selected, used_fallback) ==
    [requested |-> requested, selected |-> selected, used_fallback |-> used_fallback]

NoSelection == DeviceSelection(<<>>, <<>>, FALSE)

\* _auto_device probing cuda before mps.
AutoDeviceCudaFirst(mps, cuda) ==
    IF cuda THEN S_cuda
    ELSE IF mps THEN S_mps
    ELSE S_cpu

\* plugin._auto_device: mps first, then cuda, then cpu.
_auto_device(mps, cuda) ==
    IF mps THEN S_mps
    ELSE IF cuda THEN S_cuda
    ELSE S_cpu

\* pick_device without the availability test on a requested cuda device.
PickDeviceCudaUnchecked(preferred, mps, cuda) ==
    LET p == Strip(Lower(IF Truthy(preferred) THEN preferred ELSE S_auto)) IN
    IF p \notin {S_auto, S_mps, S_cuda, S_cpu}
    THEN [raised |-> TRUE,
          exc |-> Exc("KokoroPluginError", "Invalid preferred_device", preferred),
          selection |-> DeviceSelection(<<>>, <<>>, FALSE)]
    ELSE [raised |-> FALSE,
          exc |-> Exc("", "", <<>>),
          selection |->
              IF p = S_auto
              THEN DeviceSelection(S_auto, IF mps THEN S_mps ELSE IF cuda THEN S_cuda ELSE S_cpu, FALSE)
              ELSE IF p = S_mps /\ ~mps THEN DeviceSelection(S_mps, S_cpu, TRUE)
              ELSE DeviceSelection(p, p, FALSE)]

\* plugin.pick_device; mps and cuda are what the availability probes answer.
pick_device(preferred, mps, cuda) ==
    LET p == Strip(Lower(IF Truthy(preferred) THEN preferred ELSE S_auto)) IN
    IF p \notin {S_auto, S_mps, S_cuda, S_cpu}
    THEN [raised |-> TRUE,
          exc |-> KokoroPluginError("Invalid preferred_device", preferred),
          selection |-> NoSelection]
    ELSE [raised |-> FALSE,
          exc |-> NoExc,
          selection |->
              IF p = S_auto THEN DeviceSelection(S_auto, _auto_device(mps, cuda), FALSE)
              ELSE IF p = S_mps /\ ~mps THEN DeviceSelection(S_mps, S_cpu, TRUE)
              ELSE IF p = S_cuda /\ ~cuda THEN DeviceSelection(S_cuda, S_cpu, TRUE)
              ELSE DeviceSelection(p, p, FALSE)]

-----------------------------------------------------------------------------
\* Pipeline cache

\* One step a call performed on a collaborator (device probe, constructor,
\* inference, filesystem), recorded in the order the code performs them.
Op(name, arg, outcome) == [op |-> name, arg |-> arg, outcome |-> outcome]

\* The empty dict.
EmptyDict == [k \in {} |-> 0]

\* dict[key] = value
DictSet(d, key, value) == (key :> value) @@ d

\* kokoro.KPipeline(lang_code=..., repo_id=DEFAULT_REPO_ID, device=...): raises,
\* or returns a new object. An object is identified by its position in `log`,
\* the list of objects built so far with their constructor arguments.
KPipeline(log, lang_code, device, raises) ==
    IF raises
    THEN [raised |-> TRUE, exc |-> LibraryError(device), pipeline |-> 0, log |-> log,
          op |-> Op("KPipeline", device, "raised")]
    ELSE [raised |-> FALSE, exc |-> NoExc, pipeline |-> Len(log) + 1,
          log |-> Append(log, [lang_code |-> lang_code, device |-> device]),
          op |-> Op("KPipeline", device, "ok")]

\* The key the pipeline of the first attempt is stored under.
CacheKey(lang_code, selection) == <<lang_code, selection.selected>>

\* The cpu retry stored under the key of the first attempt.
RetryUnderFirstKey(lang_code, selection) == <<lang_code, selection.selected>>

\* The key the pipeline of the cpu retry is stored under.
RetryCacheKey(lang_code, selection) == <<lang_code, S_cpu>>

\* The cpu retry reported without the fallback flag.
RetrySelectionNoFlag(selection) == DeviceSelection(selection.requested, S_cpu, FALSE)

\* The DeviceSelection returned after a successful cpu retry.
RetrySelection(selection) == DeviceSelection(selection.requested, S_cpu, TRUE)

\* OpenClawKokoroTTSPlugin._get_pipeline. env.first_raises / env.retry_raises
\* say whether the first / the retried KPipeline construction raises.
_get_pipeline(pipelines, log, lang_code, preferred, mps, cuda, env) ==
    LET Ret(raised, exc, pipeline, selection, pipes2, log2, ops) ==
            [raised |-> raised, exc |-> exc, pipeline |-> pipeline,
             selection |-> selection, pipelines |-> pipes2, log |-> log2, ops |-> ops]
    IN
    IF lang_code \notin LANGUAGES
    THEN Ret(TRUE, KokoroPluginError("Unsupported lang_code", lang_code), 0,
             NoSelection, pipelines, log, <<>>)
    ELSE
    LET pd == pick_device(preferred, mps, cuda)
        ops1 == <<Op("pick_device", preferred, IF pd.raised THEN "raised" ELSE "ok")>>
    IN
    IF pd.raised
    THEN Ret(TRUE, pd.exc, 0, NoSelection, pipelines, log, ops1)
    ELSE
    LET selection == pd.selection
        cache_key == CacheKey(lang_code, selection)
    IN
    IF cache_key \in DOMAIN pipelines
    THEN Ret(FALSE, NoExc, pipelines[cache_key], selection, pipelines, log, ops1)
    ELSE
    LET first == KPipeline(log, lang_code, selection.selected, env.first_raises)
        ops2 == Append(ops1, first.op)
    IN
    IF ~first.raised
    THEN Ret(FALSE, NoExc, first.pipeline, selection,
             DictSet(pipelines, cache_key, first.pipeline), first.log, ops2)
    ELSE IF selection.selected # S_cpu
    THEN
        \* the retry runs inside the except block, outside any try
        LET retry == KPipeline(log, lang_code, S_cpu, env.retry_raises)
            ops3 == Append(ops2, retry.op)
        IN
        IF retry.raised
        THEN Ret(TRUE, retry.exc, 0, NoSelection, pipelines, log, ops3)
        ELSE Ret(FALSE, NoExc, retry.pipeline, RetrySelection(selection),
                 DictSet(pipelines, RetryCacheKey(lang_code, selection), retry.pipeline),
                 retry.log, ops3)
    ELSE Ret(TRUE,
             KokoroPluginError("Failed to initialize Kokoro pipeline", first.exc.detail),
             0, NoSelection, pipelines, log, ops2)

-----------------------------------------------------------------------------
\* synthesize

SampleRate == 24000

\* The audio segments a successful, non-empty inference yields.
AudioChunks == << <<1, 2>>, <<3>> >>

RECURSIVE Concatenate(_)
\* np.concatenate(chunks)
Concatenate(chunks) ==
    IF chunks = <<>> THEN <<>> ELSE Head(chunks) \o Concatenate(Tail(chunks))

\* sf.write(buff, audio_np, 24000, format="WAV") followed by base64.b64encode:
\* a header, then the samples, under the base64 encoding.
WavBase64(audio_np) == <<"base64", "RIFF", SampleRate>> \o audio_np

CwdPath  == <<"/", "w">>
HomePath == <<"/", "h">>

\* Path.expanduser(): a leading "~" becomes the home directory.
ExpandUser(path) ==
    IF path # <<>> /\ Head(path) = "~" THEN HomePath \o Tail(path) ELSE path

\* Path(p).resolve(): a relative path is taken from the working directory.
\* Path("") is the path ".".
Resolve(path) ==
    IF path # <<>> /\ Head(path) = "/" THEN path
    ELSE IF path = <<>> \/ path = <<".">> THEN CwdPath
    ELSE IF Len(path) > 2 /\ SubSeq(path, 1, 2) = <<".", "/">>
    THEN CwdPath \o <<"/">> \o SubSeq(path, 3, Len(path))
    ELSE CwdPath \o <<"/">> \o path

\* The text test without the strip.
TextMissingNoStrip(text) == ~Truthy(text)

\* not text or not text.strip()
TextMissing(text) == ~Truthy(text) \/ ~Truthy(Strip(text))

\* A missing output_path replaced by a default file name.
OutPathDefaulted(output_path) ==
    Resolve(ExpandUser(IF Truthy(output_path) THEN output_path ELSE <<"o">>))

\* Path(output_path).expanduser().resolve() if output_path else None
OutPath(output_path) ==
    IF Truthy(output_path) THEN Resolve(ExpandUser(output_path)) ELSE None

\* The wav_base64 branch also writing the file when a path was passed.
Base64AlsoWrites(output_path) ==
    IF Truthy(output_path)
    THEN <<Op("mkdir", Resolve(ExpandUser(output_path)), "ok"),
           Op("sf.write", Resolve(ExpandUser(output_path)), "ok")>>
    ELSE <<>>

\* The filesystem steps of the response_format == "wav_base64" branch.
Base64FileOps(output_path) == <<>>

\* OpenClawKokoroTTSPlugin.synthesize on the instance `self`
\* ([default_lang_code, preferred_device, _pipelines]) in the world `sys`
\* ([mps, cuda, constructed]). env gives the collaborators' answers:
\* first_raises, retry_raises (KPipeline), inference ("raises", "empty",
\* "chunks") and io ("ok", "raises": the file write raises OSError).
synthesize(self, sys, args, env) ==
    LET Ret(raised, exc, result, gp, ops) ==
            [raised |-> raised, exc |-> exc, result |-> result,
             pipeline |-> gp.pipeline, selection |-> gp.selection,
             pipelines |-> gp.pipelines, constructed |-> gp.log,
             ops |-> ops]
        untouched == [pipeline |-> 0, selection |-> NoSelection,
                      pipelines |-> self._pipelines, log |-> sys.constructed]
        NoResult == [k \in {} |-> 0]
    IN
    IF TextMissing(args.text)
    THEN Ret(TRUE, KokoroPluginError("Text is required.", <<>>), NoResult,
             untouched, <<>>)
    ELSE
    LET lang == Strip(IF Truthy(args.lang_code) THEN args.lang_code
                      ELSE self.default_lang_code)
        device_pref == IF Truthy(args.preferred_device) THEN args.preferred_device
                       ELSE self.preferred_device
        gp == _get_pipeline(self._pipelines, sys.constructed, lang, device_pref,
                            sys.mps, sys.cuda, env)
    IN
    IF gp.raised
    THEN Ret(TRUE, gp.exc, NoResult, gp, gp.ops)
    ELSE
    LET ops1 == Append(gp.ops, Op("inference", Strip(args.text), env.inference))
        chunks == IF env.inference = "chunks" THEN AudioChunks ELSE <<>>
    IN
    IF env.inference = "raises"
    THEN Ret(TRUE, KokoroPluginError("Kokoro synthesis failed", <<>>), NoResult,
             gp, ops1)
    ELSE IF chunks = <<>>
    THEN Ret(TRUE, KokoroPluginError("Kokoro returned no audio chunks.", <<>>),
             NoResult, gp, ops1)
    ELSE
    LET audio_np == Concatenate(chunks) IN
    IF args.response_format \notin {"wav", "wav_base64"}
    THEN Ret(TRUE,
             KokoroPluginError("response_format must be one of: wav, wav_base64", <<>>),
             NoResult, gp, ops1)
    ELSE
    LET result == [sample_rate |-> SampleRate,
                   device_requested |-> gp.selection.requested,
                   device_used |-> gp.selection.selected,
                   used_fallback |-> gp.selection.used_fallback,
                   lang_code |-> lang,
                   voice |-> args.voice,
                   speed |-> args.speed,
                   response_format |-> args.response_format]
    IN
    IF args.response_format = "wav_base64"
    THEN Ret(FALSE, NoExc, ("audio_base64" :> WavBase64(audio_np)) @@ result,
             gp, ops1 \o Base64FileOps(args.output_path))
    ELSE
    LET out == OutPath(args.output_path) IN
    IF out = None
    THEN Ret(TRUE,
             KokoroPluginError("output_path is required when response_format='wav'", <<>>),
             NoResult, gp, ops1)
    ELSE
    LET ops2 == Append(ops1, Op("mkdir", out, "ok"))
        ops3 == Append(ops2, Op("sf.write", out, env.io))
    IN
    IF env.io = "raises"
    THEN Ret(TRUE, Exc("OSError", "write failed", out), NoResult, gp, ops3)
    ELSE Ret(FALSE, NoExc, ("output_path" :> out) @@ result, gp, ops3)

-----------------------------------------------------------------------------
\* Inputs

Texts == {<<>>, <<" ">>, <<" ", "h", "i">>}

LangCodes == {None, <<"a">>, <<" ", "b">>, <<"z">>}

DevicePrefs == {None, S_auto, <<"M", "P", "S", " ">>, S_cuda, S_cpu, <<"g", "p", "u">>}

OutputPaths == {None, <<>>, <<"o">>}

Formats == {"wav", "wav_base64", "mp3"}

Args == [text : Texts, voice : {DEFAULT_VOICE}, speed : {1}, lang_code : LangCodes,
         preferred_device : DevicePrefs, output_path : OutputPaths,
         response_format : Formats]

Envs == [first_raises : BOOLEAN, retry_raises : BOOLEAN,
         inference : {"raises", "empty", "chunks"}, io : {"ok", "raises"}]

NoCall == [args |-> <<>>]

-----------------------------------------------------------------------------
\* Sequential synthesize calls on one plugin instance

\* OpenClawKokoroTTSPlugin() with the constructor's defaults, on a machine with
\* any accelerator availability.
Init ==
    /\ mps_available \in BOOLEAN
    /\ cuda_available \in BOOLEAN
    /\ default_lang_code = <<"a">>
    /\ preferred_device = S_auto
    /\ _pipelines = EmptyDict
    /\ constructed = <<>>
    /\ pc = "idle"
    /\ call = NoCall
    /\ stdout = <<>>
    /\ exit_status = 0

\* One whole plugin.synthesize(...) call.
Synthesize ==
    /\ pc = "idle"
    /\ \E args \in Args :
        LET self == [default_lang_code |-> default_lang_code,
                     preferred_device |-> preferred_device,
                     _pipelines |-> _pipelines]
            sys == [mps |-> mps_available, cuda |-> cuda_available,
                    constructed |-> constructed]
        IN
        \E r \in {synthesize(self, sys, args, env) : env \in Envs} :
        /\ Len(r.constructed) <= MaxBuilt
        /\ _pipelines' = r.pipelines
        /\ constructed' = r.constructed
        /\ call' = [args |-> args, raised |-> r.raised, exc |-> r.exc,
                    result |-> r.result, pipeline |-> r.pipeline,
                    selection |-> r.selection, ops |-> r.ops,
                    before |-> [_pipelines |-> _pipelines, constructed |-> constructed]]
    /\ pc' = "returned"
    /\ UNCHANGED <<mps_available, cuda_available, default_lang_code, preferred_device,
                   stdout, exit_status>>

\* The caller has the result (or the exception) and goes on to its next call.
Return ==
    /\ pc = "returned"
    /\ pc' = "idle"
    /\ call' = NoCall
    /\ UNCHANGED <<mps_available, cuda_available, default_lang_code, preferred_device,
                   _pipelines, constructed, stdout, exit_status>>

Next == Synthesize \/ Return

Spec == Init /\ [][Next]_vars

-----------------------------------------------------------------------------
\* pick_device on its own

PickPrefs ==
    {None, <<>>, S_auto, S_mps, S_cuda, S_cpu,
     <<"A", "U", "T", "O">>, <<" ", "a", "u", "t", "o", " ">>,
     <<"M", "P", "S", " ">>, <<"\t", "m", "p", "s">>,
     <<"C", "u", "d", "a">>, <<"c", "u", "d", "a", "\n">>,
     <<"C", "P", "U">>, <<" ", "c", "p", "u">>,
     <<"g", "p", "u">>, <<"m", " ", "p", "s">>, <<" ">>}

InitPick ==
    /\ mps_available \in BOOLEAN
    /\ cuda_available \in BOOLEAN
    /\ default_lang_code = <<"a">>
    /\ preferred_device = S_auto
    /\ _pipelines = EmptyDict
    /\ constructed = <<>>
    /\ pc = "pick"
    /\ call \in [preferred : PickPrefs]
    /\ stdout = <<>>
    /\ exit_status = 0

\* One pick_device(preferred) call.
PickDevice ==
    /\ pc = "pick"
    /\ LET r == pick_device(call.preferred, mps_available, cuda_available) IN
       call' = [preferred |-> call.preferred, raised |-> r.raised, exc |-> r.exc,
                selection |-> r.selection]
    /\ pc' = "picked"
    /\ UNCHANGED <<mps_available, cuda_available, default_lang_code, preferred_device,
                   _pipelines, constructed, stdout, exit_status>>

NextPick == PickDevice

SpecPick == InitPick /\ [][NextPick]_vars

-----------------------------------------------------------------------------
\* The command-line adapter

\* What argparse hands to main: --device and --format are restricted by choices.
Argv == [text : Texts,
         voice : {DEFAULT_VOICE},
         speed : {1},
         lang : {<<"a">>, <<" ", "b">>, <<"z">>},
         device : {S_auto, S_mps, S_cuda, S_cpu},
         response_format : {"wav", "wav_base64"},
         output : {<<".", "/", "o">>, <<"/", "t", "/", "o">>, <<"~", "/", "o">>}]

\* str(Path(p)): the empty path is ".".
PathStr(path) ==
    IF path = <<>> THEN <<".">>
    ELSE IF Len(path) > 2 /\ SubSeq(path, 1, 2) = <<".", "/">>
    THEN SubSeq(path, 3, Len(path))
    ELSE path

\* json.dumps({"ok": False, "error": str(exc)})
ErrorLine(exc) == [ok |-> FALSE, error |-> <<exc.msg, exc.detail>>]

\* json.dumps({"ok": True, "result": result})
OkLine(result) == [ok |-> TRUE, result |-> result]

\* Whether main's except clause catches the exception.
Caught(exc) == exc.cls = "KokoroPluginError"

InitMain ==
    /\ mps_available \in BOOLEAN
    /\ cuda_available \in BOOLEAN
    /\ default_lang_code = None
    /\ preferred_device = None
    /\ _pipelines = EmptyDict
    /\ constructed = <<>>
    /\ pc = "start"
    /\ call = NoCall
    /\ stdout = <<>>
    /\ exit_status = 0

\* One whole run of cli.main() after a successful parse_args().
Main ==
    /\ pc = "start"
    /\ \E argv \in Argv :
        LET self == [default_lang_code |-> argv.lang,
                     preferred_device |-> argv.device,
                     _pipelines |-> EmptyDict]
            sys == [mps |-> mps_available, cuda |-> cuda_available,
                    constructed |-> constructed]
            output_path == IF argv.response_format = "wav"
                           THEN PathStr(ExpandUser(argv.output))
                           ELSE None
            args == [text |-> argv.text, voice |-> argv.voice, speed |-> argv.speed,
                     lang_code |-> argv.lang, preferred_device |-> argv.device,
                     output_path |-> output_path,
                     response_format |-> argv.response_format]
        IN
        \E r \in {synthesize(self, sys, args, env) : env \in Envs} :
        /\ default_lang_code' = argv.lang
        /\ preferred_device' = argv.device
        /\ _pipelines' = r.pipelines
        /\ constructed' = r.constructed
        /\ call' = [args |-> args, raised |-> r.raised, exc |-> r.exc,
                    result |-> r.result, pipeline |-> r.pipeline,
                    selection |-> r.selection, ops |-> r.ops,
                    before |-> [_pipelines |-> _pipelines, constructed |-> constructed],
                    uncaught |-> r.raised /\ ~Caught(r.exc)]
        /\ stdout' = IF ~r.raised THEN Append(stdout, OkLine(r.result))
                     ELSE IF Caught(r.exc) THEN Append(stdout, ErrorLine(r.exc))
                     ELSE stdout
        /\ exit_status' = IF ~r.raised THEN 0 ELSE 1
    /\ pc' = "exited"
    /\ UNCHANGED <<mps_available, cuda_available>>

NextMain == Main

SpecMain == InitMain /\ [][NextMain]_vars

-----------------------------------------------------------------------------
\* Properties

Devices == {S_mps, S_cuda, S_cpu}

\* The text is empty or consists of whitespace only.
IsBlank(text) == \A i \in 1..Len(text) : text[i] \in Whitespace

\* The device preference in force for the returned call, normalised.
CallPreference ==
    Strip(Lower(IF Truthy(call.args.preferred_device) THEN call.args.preferred_device
                ELSE preferred_device))

\* The KPipeline constructions the returned call attempted.
Attempts == {i \in 1..Len(call.ops) : call.ops[i].op = "KPipeline"}

\* The filesystem steps the returned call performed.
FileOps == {i \in 1..Len(call.ops) : call.ops[i].op \in {"mkdir", "sf.write"}}

\* The objects the returned call built.
NewlyBuilt == (Len(call.before.constructed) + 1)..Len(constructed)

\* C1: once a pipeline for a (lang_code, device) pair is in _pipelines, no later
\* call constructs another pipeline bound to that pair, and the pair keeps the
\* same pipeline instance.
C1_BuiltOncePerPair ==
    pc = "returned" =>
        \A k \in DOMAIN call.before._pipelines :
            /\ \A i \in NewlyBuilt :
                   constructed[i] # [lang_code |-> k[1], device |-> k[2]]
            /\ _pipelines[k] = call.before._pipelines[k]

\* C2: when every attempted pipeline construction of a call failed, the call
\* fails with the plugin's "Failed to initialize Kokoro pipeline" error.
C2_InitFailureWrapped ==
    (pc = "returned" /\ Attempts # {}
        /\ \A i \in Attempts : call.ops[i].outcome = "raised")
    => /\ call.raised
       /\ call.exc.cls = "KokoroPluginError"
       /\ call.exc.msg = "Failed to initialize Kokoro pipeline"

\* C3: whenever synthesize fails inside main with one of the plugin's error
\* kinds (anything but a failed file write), main prints exactly one
\* {"ok": false, "error": ...} line, exits non-zero and lets no exception escape.
C3_MainReportsEveryFailure ==
    (pc = "exited" /\ call.raised /\ call.exc.cls # "OSError")
    => /\ Len(stdout) = 1
       /\ stdout[1].ok = FALSE
       /\ stdout[1] = ErrorLine(call.exc)
       /\ exit_status # 0
       /\ ~call.uncaught

\* C4 (as claimed): with preference "auto" the DeviceSelection of the call and
\* the used_fallback field of its result are never true.
C4_AutoNeverFallback ==
    (pc = "returned" /\ CallPreference = S_auto)
    => /\ ~call.selection.used_fallback
       /\ ~call.raised => ~call.result.used_fallback

\* C4 (amended): with preference "auto", used_fallback is true exactly when the
\* call built its pipeline by the cpu retry, that is when construction on the
\* accelerator auto resolved to raised; the result carries the same flag.
C4_AutoFallbackOnlyByRetry ==
    (pc = "returned" /\ CallPreference = S_auto /\ call.pipeline # 0)
    => /\ call.selection.used_fallback
            <=> \E i \in Attempts : call.ops[i].outcome = "raised"
       /\ call.selection.used_fallback => call.selection.selected = S_cpu
       /\ ~call.raised => call.result.used_fallback = call.selection.used_fallback

C4_Witness ==
    /\ pc = "returned"
    /\ CallPreference = S_auto
    /\ ~call.raised
    /\ call.result.used_fallback
    /\ call.result.device_requested = S_auto

\* C5: a call with empty or whitespace-only text fails with "Text is required."
\* whatever the other arguments are, performs no device resolution, pipeline
\* construction or inference, and leaves _pipelines unchanged.
C5_BlankTextFailsFirst ==
    (pc = "returned" /\ IsBlank(call.args.text))
    => /\ call.raised
       /\ call.exc = KokoroPluginError("Text is required.", <<>>)
       /\ call.ops = <<>>
       /\ _pipelines = call.before._pipelines
       /\ constructed = call.before.constructed

C5_Witness ==
    /\ pc = "returned"
    /\ call.args.text = <<" ">>
    /\ call.args.lang_code = <<"z">>
    /\ call.args.preferred_device = <<"g", "p", "u">>
    /\ call.args.response_format = "mp3"
    /\ call.before._pipelines # EmptyDict
    /\ call.raised

\* C6: for a preference among auto, mps, cuda, cpu, pick_device sets
\* used_fallback exactly when an accelerator was requested that is unavailable,
\* and then selects cpu; otherwise it selects the requested device (for auto, an
\* available accelerator or cpu) without the flag.
C6_FallbackIffUnavailable ==
    (pc = "picked" /\ call.preferred \in {S_auto, S_mps, S_cuda, S_cpu})
    => LET sel == call.selection
           unavailable == \/ call.preferred = S_mps /\ ~mps_available
                          \/ call.preferred = S_cuda /\ ~cuda_available
       IN /\ ~call.raised
          /\ sel.requested = call.preferred
          /\ sel.used_fallback <=> unavailable
          /\ unavailable => sel.selected = S_cpu
          /\ (~unavailable /\ call.preferred # S_auto) => sel.selected = call.preferred
          /\ (call.preferred = S_auto) =>
                 \/ sel.selected = S_mps /\ mps_available
                 \/ sel.selected = S_cuda /\ cuda_available
                 \/ sel.selected = S_cpu

C6_Witness ==
    /\ pc = "picked"
    /\ call.preferred = S_cuda
    /\ ~cuda_available
    /\ mps_available
    /\ call.selection = DeviceSelection(S_cuda, S_cpu, TRUE)

\* C7: for "auto" pick_device selects mps if available, else cuda if available,
\* else cpu; and whenever pick_device returns, selected is one of mps, cuda, cpu.
C7_AutoPriority ==
    (pc = "picked" /\ ~call.raised)
    => /\ call.selection.selected \in Devices
       /\ call.selection.requested = S_auto =>
              /\ mps_available => call.selection.selected = S_mps
              /\ (~mps_available /\ cuda_available) => call.selection.selected = S_cuda
              /\ (~mps_available /\ ~cuda_available) => call.selection.selected = S_cpu

C7_Witness ==
    /\ pc = "picked"
    /\ call.preferred = <<"A", "U", "T", "O">>
    /\ mps_available /\ cuda_available
    /\ call.selection = DeviceSelection(S_auto, S_mps, FALSE)

\* C8 (as claimed): a call with response_format "wav" and output_path None
\* always fails with "output_path is required when response_format='wav'".
C8_AlwaysMissingOutputPath ==
    (pc = "returned" /\ call.args.response_format = "wav"
        /\ call.args.output_path = None)
    => /\ call.raised
       /\ call.exc.msg = "output_path is required when response_format='wav'"

\* C8 (amended): such a call never succeeds and never touches the filesystem;
\* it fails with the missing-output-path error exactly when the text is not
\* blank, a pipeline was obtained and inference yielded audio, and with the
\* error of the earlier step otherwise.
C8_MissingOutputPathAfterInference ==
    (pc = "returned" /\ call.args.response_format = "wav"
        /\ call.args.output_path = None)
    => /\ call.raised
       /\ FileOps = {}
       /\ (call.exc = KokoroPluginError(
                          "output_path is required when response_format='wav'", <<>>))
            <=> (/\ call.ops # <<>>
                 /\ call.ops[Len(call.ops)].op = "inference"
                 /\ call.ops[Len(call.ops)].outcome = "chunks")

C8_Witness ==
    /\ pc = "returned"
    /\ call.args.response_format = "wav"
    /\ call.args.output_path = None
    /\ call.raised
    /\ call.exc.msg = "output_path is required when response_format='wav'"
    /\ call.pipeline # 0

\* C9: a successful wav_base64 call performs no filesystem step, whatever
\* output_path was passed, and its result has a non-empty audio_base64 and no
\* output_path; a successful wav call has output_path and no audio_base64.
C9_Base64NoFilesystem ==
    (pc = "returned" /\ ~call.raised)
    => /\ call.args.response_format = "wav_base64" =>
              /\ FileOps = {}
              /\ "audio_base64" \in DOMAIN call.result
              /\ call.result.audio_base64 # <<>>
              /\ "output_path" \notin DOMAIN call.result
       /\ call.args.response_format = "wav" =>
              /\ "output_path" \in DOMAIN call.result
              /\ "audio_base64" \notin DOMAIN call.result

C9_Witness ==
    /\ pc = "returned"
    /\ ~call.raised
    /\ call.args.response_format = "wav_base64"
    /\ call.args.output_path = <<"o">>
    /\ "audio_base64" \in DOMAIN call.result

\* C10: every entry of _pipelines under (lang, dev) is a pipeline constructed
\* with lang_code = lang and device = dev, lang supported and dev one of mps,
\* cuda, cpu; and a successful result's device_used and lang_code are those the
\* pipeline that ran the inference was constructed with.
C10_CacheKeysMatchPipelines ==
    /\ \A k \in DOMAIN _pipelines :
           /\ k[1] \in LANGUAGES
           /\ k[2] \in Devices
           /\ _pipelines[k] \in 1..Len(constructed)
           /\ constructed[_pipelines[k]] = [lang_code |-> k[1], device |-> k[2]]
    /\ (pc = "returned" /\ ~call.raised) =>
           /\ call.pipeline \in 1..Len(constructed)
           /\ constructed[call.pipeline].device = call.result.device_used
           /\ constructed[call.pipeline].lang_code = call.result.lang_code

C10_Witness ==
    /\ pc = "returned"
    /\ ~call.raised
    /\ call.result.used_fallback
    /\ call.result.device_requested = S_mps
    /\ mps_available
    /\ <<<<"b">>, S_cpu>> \in DOMAIN _pipelines
    /\ Cardinality(DOMAIN _pipelines) = 2

====
